---- MODULE Spec2Model ----
(***************************************************************************)
(* Controll Supervisor add-on (controll-supervisor/run.py).                *)
(*                                                                         *)
(* Texts (the configuration document, theme files, header values, the hub  *)
(* token, paths) are sequences of tokens.  A token is a piece of text; the *)
(* token alphabet is chosen so that a marker the code searches for         *)
(* ("homeassistant:", "themes:", "frontend:", "name: Controll", ...) can   *)
(* occur in the bytes of a text only where its tokens occur in the token   *)
(* sequence, so Python's substring test `m in s`, str.replace and          *)
(* str.startswith are computed on token sequences exactly as on bytes.     *)
(* Header values and the hub token are sequences of single characters.     *)
(***************************************************************************)
EXTENDS Integers, Sequences, FiniteSets, TLC

VARIABLES
    HUB_TOKEN,   \* run.py:79, loaded once at import
    started,     \* TRUE once main() has run the startup reconciliation
    fs,          \* files below /config: path -> <<>> (absent) or <<text>>
    dirs,        \* directories below /config that exist
    pending,     \* request slot -> handler suspended at `await request.json()`
    last,        \* outcome of the last completed operation
    outbound,    \* outbound calls issued by request handlers
    hb,          \* the send_heartbeat task
    posted,      \* heartbeat payloads submitted to the platform
    authz        \* last verify_token evaluation (header, result)

vars == <<HUB_TOKEN, started, fs, dirs, pending, last, outbound, hb, posted, authz>>

(***************************************************************************)
(* Bounds                                                                  *)
(***************************************************************************)
MaxFrags == 2        \* initial configuration document: at most this many fragments
MaxTokenLen == 3     \* hub tokens of at most this many characters
MaxReq == 2          \* request slots (requests in flight at once)
MaxOutbound == 1     \* outbound calls counted
MaxCycles == 2       \* heartbeat cycles counted

(***************************************************************************)
(* Text helpers: Python str operations on token sequences                  *)
(***************************************************************************)
\* s.startswith(p)
StartsWith(s, p) == Len(p) <= Len(s) /\ SubSeq(s, 1, Len(p)) = p

\* `m in s`
Contains(s, m) == \E i \in 0..(Len(s) - Len(m)) : SubSeq(s, i + 1, i + Len(m)) = m

\* s[n:]
DropFirst(s, n) == SubSeq(s, n + 1, Len(s))

\* s.replace(old, new): every non-overlapping occurrence, left to right
RECURSIVE Replace(_, _, _)
Replace(s, old, new) ==
    IF Len(s) < Len(old) \/ old = <<>> THEN s
    ELSE IF SubSeq(s, 1, Len(old)) = old
         THEN new \o Replace(DropFirst(s, Len(old)), old, new)
         ELSE <<Head(s)>> \o Replace(Tail(s), old, new)

\* s is an initial segment of t
IsPrefix(s, t) == StartsWith(t, s)

\* s is obtained from t by deleting tokens (order kept)
RECURSIVE IsSubsequence(_, _)
IsSubsequence(s, t) ==
    IF s = <<>> THEN TRUE
    ELSE IF t = <<>> THEN FALSE
    ELSE IF Head(s) = Head(t) THEN IsSubsequence(Tail(s), Tail(t))
    ELSE IsSubsequence(s, Tail(t))

\* number of occurrences of token x in s
RECURSIVE Count(_, _)
Count(s, x) ==
    IF s = <<>> THEN 0 ELSE (IF Head(s) = x THEN 1 ELSE 0) + Count(Tail(s), x)

\* all sequences over S of length at most n
SeqsUpTo(S, n) == UNION {[1..k -> S] : k \in 0..n}

(***************************************************************************)
(* Markers and the blocks the reconciler writes                            *)
(***************************************************************************)
NL == "\n"
SP == " "
HA == "homeassistant:"
TH == "themes:"
FE == "frontend:"
INCLUDE == "!include_dir_merge_named themes"

NameControll == <<"name:", SP, "Controll">>                    \* "name: Controll"
NameControllQuoted == <<"name:", SP, "\"", "Controll", "\"">>  \* "name: \"Controll\""

\* f"\n\nhomeassistant:\n  name: {name}\n"
BrandingBlock(name) == <<NL, NL, HA, NL, SP, SP, "name:", SP>> \o name \o <<NL>>

\* "\n\n# Controll themes\nfrontend:\n  themes: !include_dir_merge_named themes\n"
ThemesBlock == <<NL, NL, "# Controll themes", NL, FE, NL, SP, SP, TH, SP, INCLUDE, NL>>

\* "\nfrontend:\n  themes: !include_dir_merge_named themes\n"
StartupThemesBlock == <<NL, FE, NL, SP, SP, TH, SP, INCLUDE, NL>>

\* "frontend:\n  themes: !include_dir_merge_named themes"
FrontendWithThemes == <<FE, NL, SP, SP, TH, SP, INCLUDE>>

CONTROLL_THEME == <<"controll:", NL, "primary-color: #f97316", NL>>

(***************************************************************************)
(* Paths below /config: token sequences with "/" separators                *)
(***************************************************************************)
SEP == "/"
UP == ".."
YAML == ".yaml"

\* Path(HA_CONFIG_PATH) / "configuration.yaml"
ConfigFile == <<"configuration", YAML>>
\* Path(HA_CONFIG_PATH) / "themes"
ThemesDir == <<"themes">>

\* components of a path: the token runs between separators
RECURSIVE Components(_)
Components(p) ==
    IF ~Contains(p, <<SEP>>) THEN <<p>>
    ELSE LET i == CHOOSE k \in 1..Len(p) :
                      p[k] = SEP /\ \A j \in 1..(k - 1) : p[j] # SEP
         IN <<SubSeq(p, 1, i - 1)>> \o Components(DropFirst(p, i))

\* the operating system's walk over the components: ".." steps to the parent
RECURSIVE Walk(_, _)
Walk(stack, comps) ==
    IF comps = <<>> THEN stack
    ELSE IF Head(comps) = <<UP>>
         THEN Walk(IF stack = <<>> \/ stack[Len(stack)] = <<UP>>
                   THEN Append(stack, <<UP>>)
                   ELSE SubSeq(stack, 1, Len(stack) - 1), Tail(comps))
         ELSE IF Head(comps) = <<>> THEN Walk(stack, Tail(comps))
         ELSE Walk(Append(stack, Head(comps)), Tail(comps))

RECURSIVE Join(_)
Join(comps) ==
    IF comps = <<>> THEN <<>>
    ELSE IF Len(comps) = 1 THEN comps[1]
    ELSE comps[1] \o <<SEP>> \o Join(Tail(comps))

\* the file a path relative to /config names
Resolve(p) == Join(Walk(<<>>, Components(p)))

\* the directory holding the file p names
Parent(p) ==
    LET c == Walk(<<>>, Components(p))
    IN IF c = <<>> THEN <<>> ELSE Join(SubSeq(c, 1, Len(c) - 1))

\* themes_dir / f"{theme_name}.yaml"
ThemeFile(theme_name) == ThemesDir \o <<SEP>> \o theme_name \o <<YAML>>

\* every directory the walk steps into exists
RECURSIVE Traversable(_, _, _)
Traversable(ds, stack, comps) ==
    IF Len(comps) <= 1 THEN TRUE
    ELSE LET next == Walk(stack, <<Head(comps)>>)
         IN /\ Head(comps) \in {<<UP>>, <<>>} \/ Join(next) \in ds
            /\ Traversable(ds, next, Tail(comps))

(***************************************************************************)
(* Inputs                                                                  *)
(***************************************************************************)
\* pieces an operator-edited configuration.yaml is made of
Fragments ==
    {<<HA>>, <<TH>>, <<FE>>, NameControll, NameControllQuoted, <<"x">>}

RECURSIVE Concat(_)
Concat(ss) == IF ss = <<>> THEN <<>> ELSE Head(ss) \o Concat(Tail(ss))

InitialDocs == {Concat(ss) : ss \in SeqsUpTo(Fragments, MaxFrags)}

\* "name" values of POST /api/branding
BrandingNames == {<<"Acme">>, <<TH>>}

\* "name" and "content" values of POST /api/theme/install
ThemeNames ==
    {<<"controll">>, <<"acme">>, <<UP, SEP, "configuration">>, <<UP, SEP, "secrets">>}
ThemeContents == {<<"v1">>, <<"v2">>}

\* an optional JSON key: <<>> when absent, <<v>> when present
Optional(S) == {<<>>} \cup {<<v>> : v \in S}
\* data.get(key, default)
Get(opt, default) == IF opt = <<>> THEN default ELSE opt[1]

\* request bodies; valid = FALSE is a body request.json() raises on
BrandingBodies ==
    [valid : {TRUE}, name : Optional(BrandingNames)]
        \cup [valid : {FALSE}, name : {<<>>}]
ThemeBodies ==
    [valid : {TRUE}, name : Optional(ThemeNames), content : Optional(ThemeContents)]
        \cup [valid : {FALSE}, name : {<<>>}, content : {<<>>}]

\* the theme-install bodies of the specifications about the configuration
\* document: the default theme name and one that leaves the themes directory
DocThemeBodies ==
    {b \in ThemeBodies : b.name \in {<<>>, <<<<UP, SEP, "configuration">>>>}
                          /\ b.content \in {<<>>, <<<<"v1">>>>} /\ (b.valid => b.content # <<>>)}

\* "path" values of POST /api/file/write and GET /api/file/read
SecretsFile == <<"secrets", YAML>>
WritePaths ==
    {ConfigFile, SecretsFile, <<UP, SEP>> \o SecretsFile, <<SEP>> \o SecretsFile}
FileBodies ==
    [valid : {TRUE}, path : Optional(WritePaths), content : Optional(ThemeContents)]
        \cup [valid : {FALSE}, path : {<<>>}, content : {<<>>}]

\* the files of the model
Files ==
    {ConfigFile, SecretsFile} \cup {Resolve(ThemeFile(n)) : n \in ThemeNames}

\* the hub token the request-handling specifications run with
Secret == <<"s", "_", "k">>

(***************************************************************************)
(* verify_token                                                            *)
(***************************************************************************)
Bearer == <<"B", "e", "a", "r", "e", "r", " ">>
BearerLen == 7

\* a token check that skips the scheme test and compares auth[7:] at once
verify_token_NoSchemeTest(auth) == DropFirst(auth, BearerLen) = HUB_TOKEN

\* request.headers.get("Authorization", ""): an absent header reads as ""
verify_token(auth) ==
    IF ~StartsWith(auth, Bearer) THEN FALSE
    ELSE DropFirst(auth, BearerLen) = HUB_TOKEN

\* the evaluation of verify_token a handler starts with
Checked(auth) == [auth |-> auth, result |-> verify_token(auth), evaluated |-> TRUE]

\* a request without credential and one with the hub token
DocHeaders == {<<>>, Bearer \o HUB_TOKEN}

\* header values requests arrive with, given the configured token
RequestHeaders ==
    {<<>>, HUB_TOKEN, Bearer \o HUB_TOKEN, Bearer \o HUB_TOKEN \o <<"x">>}

(***************************************************************************)
(* Reconciler: the text each operation leaves in configuration.yaml        *)
(***************************************************************************)
\* config_file.read_text() if config_file.exists() else ""
ReadConfig(f) == IF f[ConfigFile] = <<>> THEN <<>> ELSE f[ConfigFile][1]

\* a branding check that looks for the default name instead of the section
BrandingMissing_NameMarker(config_content) == ~Contains(config_content, NameControll)

\* a write that truncates (mode "w") instead of appending (mode "a")
AppendTo_Truncate(text, block) == block

\* with open(config_file, "a") as f: f.write(block)
AppendTo(text, block) == text \o block

\* a branding check that takes a section with another name as missing
BrandingMissing_DefaultOnly(config_content) ==
    ~Contains(config_content, BrandingBlock(<<"Controll">>))

\* handle_set_branding: the branding block is appended unless the marker is there
BrandingMissing(config_content) == ~Contains(config_content, <<HA>>)
SetBrandingText(config_content, name) ==
    IF BrandingMissing(config_content)
    THEN AppendTo(config_content, BrandingBlock(name))
    ELSE config_content

\* handle_install_theme: the themes block is appended unless the marker is there
ThemesMissing(config_content) == ~Contains(config_content, <<TH>>)
InstallThemeText(config_content) ==
    IF ThemesMissing(config_content)
    THEN AppendTo(config_content, ThemesBlock)
    ELSE config_content

\* a startup branding check that only knows the quoted form of the name
StartupBrandingMissing_QuotedOnly(config_content) ==
    ~Contains(config_content, NameControllQuoted)

\* install_controll_branding, "Add homeassistant name if not present"
StartupBrandingMissing(config_content) ==
    /\ ~Contains(config_content, NameControll)
    /\ ~Contains(config_content, NameControllQuoted)
    /\ ~Contains(config_content, <<HA>>)
StartupBranding(config_content) ==
    IF StartupBrandingMissing(config_content)
    THEN config_content \o BrandingBlock(<<"Controll">>)
    ELSE config_content

\* a startup themes step without the "themes:" marker test
StartupThemes_NoMarkerTest(config_content) ==
    IF ~Contains(config_content, <<FE>>)
    THEN config_content \o StartupThemesBlock
    ELSE Replace(config_content, <<FE>>, FrontendWithThemes)

\* install_controll_branding, "Add themes config if not present"
StartupThemes(config_content) ==
    IF ~Contains(config_content, <<TH>>)
    THEN IF ~Contains(config_content, <<FE>>)
         THEN config_content \o StartupThemesBlock
         ELSE Replace(config_content, <<FE>>, FrontendWithThemes)
    ELSE config_content

\* a `changed` flag that only the branding step sets
StartupChanged_BrandingOnly(config_content) == StartupBrandingMissing(config_content)

\* the `changed` flag of install_controll_branding
StartupChanged(config_content) ==
    \/ StartupBrandingMissing(config_content)
    \/ ~Contains(StartupBranding(config_content), <<TH>>)

\* the text install_controll_branding ends with
StartupText(config_content) == StartupThemes(StartupBranding(config_content))

(***************************************************************************)
(* State shared by the specifications                                      *)
(***************************************************************************)
Slots == 1..MaxReq
\* the frame of a handler: its endpoint and its local config_content, <<>>
\* while the handler has not read configuration.yaml
Idle == [ep |-> "idle", config_content |-> <<>>]
NoRequests == [s \in Slots |-> Idle]

\* a handler that read configuration.yaml before awaiting the request body
Suspended_ReadFirst(ep, f) == [ep |-> ep, config_content |-> <<ReadConfig(f)>>]

\* the frame of a handler suspended at `await request.json()`: the await
\* is the first statement of the try block, nothing has been read
Suspended(ep, f) == [ep |-> ep, config_content |-> <<>>]

\* the text a handler decides on: read after the await, in the same run
Decided(frame, f) == Get(frame.config_content, ReadConfig(f))

\* the outcome of an operation: the response of a handler (its status and the
\* "message" or "error" text of its JSON body), or how startup ended
Reply(op, status, message) == [op |-> op, status |-> status, message |-> message]
Outcome(op, status) == Reply(op, status, <<>>)
NoOutcome == Outcome("none", "none")

\* {"error": "Unauthorized"}
UnauthorizedText == <<"Unauthorized">>
\* f"Branding set to '{name}'. Restart HA to apply."
BrandingSetText(name) == <<"Branding set to '">> \o name \o <<"'. Restart HA to apply.">>
\* f"Theme '{theme_name}' installed. Restart HA to apply."
ThemeInstalledText(theme_name) ==
    <<"Theme '">> \o theme_name \o <<"' installed. Restart HA to apply.">>

\* str(e) of the exceptions the handlers catch: a body that is not JSON, a
\* file that cannot be opened, a directory that is not there, no yaml module
JSONErrorText == <<"Expecting value: line 1 column 1 (char 0)">>
ConfigRoot == "/config/"
DeniedText(path) == <<"[Errno 13] Permission denied: '", ConfigRoot>> \o path \o <<"'">>
NoSuchFileText(path) ==
    <<"[Errno 2] No such file or directory: '", ConfigRoot>> \o path \o <<"'">>
NoYamlText == <<"No module named 'yaml'">>

\* the send_heartbeat task as asyncio.create_task leaves it
\* pc: where the task is; cycle: iterations completed; waited: seconds slept
\* since the iteration began; fetches: calls to the local API so far;
\* ha_version, entities_count: the keys of the `info` dict, <<>> when unset;
\* version_fetch, states_fetch: how the fetches of this iteration ended;
\* submit: how the last submission ended
HbStart == [pc |-> "top", cycle |-> 0, waited |-> 0, fetches |-> 0,
            ha_version |-> <<>>, entities_count |-> <<>>,
            version_fetch |-> "none", states_fetch |-> "none", submit |-> "none"]

NoAuthz == [auth |-> <<>>, result |-> FALSE, evaluated |-> FALSE]

\* where a file-system operation of a handler can raise
IOOutcomes == {"ok", "theme_write", "config_write"}

(***************************************************************************)
(* install_controll_branding, as main() runs it (exceptions are caught and *)
(* logged by main)                                                         *)
(***************************************************************************)
install_controll_branding(io) ==
    LET dirs1 == dirs \cup {ThemesDir}
        theme_file == Resolve(ThemeFile(<<"controll">>))
        written == io # "theme_write"
        fs1 == IF written THEN [fs EXCEPT ![theme_file] = <<CONTROLL_THEME>>] ELSE fs
        config_content == ReadConfig(fs1)
        changed == StartupChanged(config_content)
        persisted == written /\ changed /\ io # "config_write"
        raised == ~written \/ (changed /\ io = "config_write")
    IN /\ dirs' = dirs1
       /\ fs' = IF persisted
                THEN [fs1 EXCEPT ![ConfigFile] = <<StartupText(config_content)>>]
                ELSE fs1
       /\ last' = Outcome("startup", IF raised THEN "raised" ELSE "completed")

\* main(): the process (re)starts; requests in flight are gone, the
\* heartbeat task is created anew
main ==
    /\ \E io \in IOOutcomes : install_controll_branding(io)
    /\ started' = TRUE
    /\ pending' = NoRequests
    /\ hb' = HbStart
    /\ UNCHANGED <<HUB_TOKEN, outbound, posted, authz>>

(***************************************************************************)
(* Request handlers: the part after `await request.json()`                 *)
(***************************************************************************)
\* verify_token failed: the handler returns 401 at once
Unauthorized(op) ==
    /\ last' = Reply(op, "401", UnauthorizedText)
    /\ UNCHANGED <<fs, dirs, outbound>>

\* handle_set_branding, lines 493-519
SetBranding(frame, body, io, yaml_ok) ==
    LET name == Get(body.name, <<"Controll">>)
        config_content == Decided(frame, fs)
        appends == body.valid /\ BrandingMissing(config_content) /\ io # "config_write"
        raised == \/ ~body.valid
                  \/ BrandingMissing(config_content) /\ io = "config_write"
                  \/ ~BrandingMissing(config_content) /\ ~yaml_ok
    IN /\ fs' = IF appends
                THEN [fs EXCEPT ![ConfigFile] =
                                    <<AppendTo(ReadConfig(fs), BrandingBlock(name))>>]
                ELSE fs
       /\ last' = IF ~body.valid THEN Reply("set_branding", "500", JSONErrorText)
                  ELSE IF BrandingMissing(config_content) /\ io = "config_write"
                  THEN Reply("set_branding", "500", DeniedText(ConfigFile))
                  ELSE IF ~BrandingMissing(config_content) /\ ~yaml_ok
                  THEN Reply("set_branding", "500", NoYamlText)
                  ELSE Reply("set_branding", "200", BrandingSetText(name))
       /\ UNCHANGED <<dirs, outbound>>

\* handle_install_theme, lines 450-483
InstallTheme(frame, body, io) ==
    LET theme_name == Get(body.name, <<"controll">>)
        theme_content == Get(body.content, <<>>)
        dirs1 == IF body.valid THEN dirs \cup {ThemesDir} ELSE dirs
        theme_file == ThemeFile(theme_name)
        written == /\ body.valid
                   /\ io # "theme_write"
                   /\ Traversable(dirs1, <<>>, Components(theme_file))
                   /\ Resolve(theme_file) \in Files \ dirs1
        fs1 == IF written THEN [fs EXCEPT ![Resolve(theme_file)] = <<theme_content>>] ELSE fs
        config_content == Decided(frame, fs1)
        appends == written /\ ThemesMissing(config_content) /\ io # "config_write"
        raised == ~written \/ (ThemesMissing(config_content) /\ io = "config_write")
    IN /\ dirs' = dirs1
       /\ fs' = IF appends
                THEN [fs1 EXCEPT ![ConfigFile] = <<AppendTo(ReadConfig(fs1), ThemesBlock)>>]
                ELSE fs1
       /\ last' = IF ~body.valid THEN Reply("install_theme", "500", JSONErrorText)
                  ELSE IF io = "theme_write"
                  THEN Reply("install_theme", "500", DeniedText(theme_file))
                  ELSE IF ~written
                  THEN Reply("install_theme", "500", NoSuchFileText(theme_file))
                  ELSE IF raised
                  THEN Reply("install_theme", "500", DeniedText(ConfigFile))
                  ELSE Reply("install_theme", "200", ThemeInstalledText(theme_name))
       /\ UNCHANGED outbound

(***************************************************************************)
(* Request handlers run to completion (no other task runs between the      *)
(* resumption after `await request.json()` and the response)               *)
(***************************************************************************)
handle_set_branding(auth, bodies) ==
    /\ started
    /\ IF ~verify_token(auth) THEN Unauthorized("set_branding")
       ELSE \E body \in bodies, io \in {"ok", "config_write"}, yaml_ok \in BOOLEAN :
               SetBranding(Idle, body, io, yaml_ok)
    /\ authz' = Checked(auth)
    /\ UNCHANGED <<HUB_TOKEN, started, pending, hb, posted>>

handle_install_theme(auth, bodies) ==
    /\ started
    /\ IF ~verify_token(auth) THEN Unauthorized("install_theme")
       ELSE \E body \in bodies, io \in IOOutcomes : InstallTheme(Idle, body, io)
    /\ authz' = Checked(auth)
    /\ UNCHANGED <<HUB_TOKEN, started, pending, hb, posted>>

(***************************************************************************)
(* Spec: the reconciler on operator-edited documents                       *)
(***************************************************************************)
Init ==
    /\ HUB_TOKEN = Secret
    /\ started = FALSE
    /\ \E doc \in Optional(InitialDocs) :
          fs = [p \in Files |-> IF p = ConfigFile THEN doc ELSE <<>>]
    /\ dirs = {}
    /\ pending = NoRequests
    /\ last = NoOutcome
    /\ outbound = 0
    /\ hb = HbStart
    /\ posted = <<>>
    /\ authz = NoAuthz

Next ==
    \/ main
    \/ \E auth \in DocHeaders : handle_set_branding(auth, BrandingBodies)
    \/ \E auth \in DocHeaders : handle_install_theme(auth, DocThemeBodies)

Spec == Init /\ [][Next]_vars

(***************************************************************************)
(* Properties of the reconciler (checked under Spec)                       *)
(***************************************************************************)
Config == ReadConfig(fs)
ConfigAfter == ReadConfig(fs')
\* the last operation was op and ended with status
Answered(op, status) == last.op = op /\ last.status = status
\* this step is op ending with status
Served(op, status) == last'.op = op /\ last'.status = status

\* C1: handling POST /api/branding a second time, directly after it was
\* handled successfully, leaves configuration.yaml byte-identical to what the
\* first handling left (whatever the name of either request).
C1_BrandingIdempotent ==
    [][(Answered("set_branding", "200") /\ Served("set_branding", "200"))
          => fs'[ConfigFile] = fs[ConfigFile]]_vars

\* a branding request appended its block and was answered 200
C1_Witness ==
    /\ Answered("set_branding", "200")
    /\ Config # <<>>
    /\ Len(Config) >= Len(BrandingBlock(<<"Acme">>))
    /\ DropFirst(Config, Len(Config) - Len(BrandingBlock(<<"Acme">>))) = BrandingBlock(<<"Acme">>)
    /\ Count(Config, HA) = 1

\* C2: the theme-registry step is idempotent on every document the program
\* reaches, with or without a "frontend:" section: applied to its own result
\* it returns that result, at startup and in POST /api/theme/install.
C2_ThemesIdempotent ==
    /\ StartupThemes(StartupThemes(Config)) = StartupThemes(Config)
    /\ InstallThemeText(InstallThemeText(Config)) = InstallThemeText(Config)

\* startup put the theme-registry line under a "frontend:" section that was
\* already in the document
C2_Witness ==
    /\ Answered("startup", "completed")
    /\ Contains(Config, FrontendWithThemes \o <<"x">>)
    /\ Count(Config, FE) = 1

\* C3: the branding operation only appends: the document before a branding
\* request is a prefix of the document after it, and the document before the
\* startup branding step is a prefix of the document after that step.
C3_BrandingAppendsOnly ==
    [][/\ (last'.op = "set_branding" => IsPrefix(Config, ConfigAfter))
       /\ IsPrefix(Config, StartupBranding(Config))]_vars

\* a branding request appended to a document with unrelated content
C3_Witness ==
    /\ Answered("set_branding", "200")
    /\ StartsWith(Config, <<"x">>)
    /\ Contains(Config, BrandingBlock(<<"Acme">>))

\* C4 (as claimed): every step of the reconciler (startup reconciliation,
\* branding request, theme-install request) leaves the previous document as a
\* prefix of the new one.
C4_PrefixKept ==
    [][last'.op \in {"startup", "set_branding", "install_theme"}
          => IsPrefix(Config, ConfigAfter)]_vars

\* C8: a startup reconciliation that completes on an empty or missing
\* document leaves a document with the "homeassistant:" section named
\* Controll and the "themes:" line under "frontend:"; a startup
\* reconciliation that completes directly after one that completed leaves
\* configuration.yaml as it was.
C8_StartupOnEmpty ==
    [][/\ (Served("startup", "completed") /\ Config = <<>>)
             => /\ Contains(ConfigAfter, BrandingBlock(<<"Controll">>))
                /\ Contains(ConfigAfter, <<FE, NL, SP, SP, TH, SP, INCLUDE, NL>>)
       /\ (Answered("startup", "completed") /\ Served("startup", "completed"))
             => fs'[ConfigFile] = fs[ConfigFile]]_vars

\* startup reconciliation completed on an empty document
C8_Witness ==
    /\ Answered("startup", "completed")
    /\ Config = BrandingBlock(<<"Controll">>) \o StartupThemesBlock

\* C14 (as claimed): a theme install that is answered 200 leaves the file
\* themes/<name>.yaml holding exactly the content of the request and leaves
\* the theme files of other names as they were, with the themes directory
\* there; a startup reconciliation that completes leaves the default theme in
\* themes/controll.yaml.
C14_LastWriteWins ==
    [][/\ \A body \in DocThemeBodies, io \in IOOutcomes :
             (InstallTheme(Idle, body, io) /\ Served("install_theme", "200")) =>
                 LET theme_name == Get(body.name, <<"controll">>)
                 IN /\ ThemesDir \in dirs'
                    /\ fs'[Resolve(ThemeFile(theme_name))] = <<Get(body.content, <<>>)>>
                    /\ \A other \in ThemeNames \ {theme_name} :
                          fs'[Resolve(ThemeFile(other))] = fs[Resolve(ThemeFile(other))]
       /\ Served("startup", "completed") =>
             fs'[Resolve(ThemeFile(<<"controll">>))] = <<CONTROLL_THEME>>]_vars

\* C15 (as claimed): when the theme-registry line is added to a document that
\* has a "frontend:" section, at startup or by a theme install, the line goes
\* under that section and no further "frontend:" header is added.
C15_NoSecondFrontend ==
    [][(/\ last'.op \in {"startup", "install_theme"}
        /\ Contains(Config, <<FE>>)
        /\ ~Contains(Config, <<TH>>)
        /\ Contains(ConfigAfter, <<TH>>))
          => /\ Count(ConfigAfter, FE) = Count(Config, FE)
             /\ Contains(ConfigAfter, FrontendWithThemes)]_vars

\* C16 (as claimed): on a document with neither marker, the branding
\* operation followed by the theme-registry step of a theme install, and the
\* two in the other order, both give a document with the branding section of
\* that name and the theme-registry directive, for every branding name.
C16_OrderIndependent ==
    (~Contains(Config, <<HA>>) /\ ~Contains(Config, <<TH>>)) =>
        \A name \in BrandingNames \cup {<<"Controll">>} :
            LET branding_first == InstallThemeText(SetBrandingText(Config, name))
                theme_first == SetBrandingText(InstallThemeText(Config), name)
            IN \A doc \in {branding_first, theme_first} :
                  /\ Contains(doc, BrandingBlock(name))
                  /\ Contains(doc, <<TH, SP, INCLUDE>>)

\* the replies POST /api/branding gives when it has appended its block
ChangedReplies ==
    {Reply("set_branding", "200", BrandingSetText(name)) :
        name \in BrandingNames \cup {<<"Controll">>}}

\* C17 (as claimed): a branding request that is answered 200 on a document
\* that already has the "homeassistant:" marker changes nothing and its reply
\* is not one of the replies given when the block was appended.
C17_AlreadyConfiguredDistinct ==
    [][(Served("set_branding", "200") /\ Contains(Config, <<HA>>))
          => /\ fs' = fs
             /\ last' \notin ChangedReplies]_vars

\* C18 (as claimed): POST /api/branding and POST /api/theme/install answer 401
\* exactly to a request without valid credential, 400 to a body that is not
\* JSON, and 500 to a failure of the file system with a message that names
\* no path below /config.
C18_StableStatusCodes ==
    last.op \in {"set_branding", "install_theme"} =>
        /\ last.status = "401" <=> ~authz.result
        /\ last.message = JSONErrorText => last.status = "400"
        /\ last.status = "500" => ~Contains(last.message, <<ConfigRoot>>)

\* C19: a startup reconciliation that completes has written the default theme
\* to themes/controll.yaml; it has written configuration.yaml exactly when the
\* branding step or the theme-registry step changed the text, and then with
\* the result of the branding step followed by the theme-registry step; a
\* document with both markers is left as it is.
C19_StartupWritesIffChanged ==
    [][Served("startup", "completed") =>
          LET step1 == StartupBranding(Config)
              step2 == StartupThemes(step1)
          IN /\ fs'[Resolve(ThemeFile(<<"controll">>))] = <<CONTROLL_THEME>>
             /\ (step1 # Config \/ step2 # step1) => fs'[ConfigFile] = <<step2>>
             /\ (step1 = Config /\ step2 = step1) => fs'[ConfigFile] = fs[ConfigFile]
             /\ (Contains(Config, <<HA>>) /\ Contains(Config, <<TH>>))
                   => fs'[ConfigFile] = fs[ConfigFile]]_vars

\* startup completed on a document that had both markers: the default theme
\* is installed and the document is as the operator left it
C19_Witness ==
    /\ Answered("startup", "completed")
    /\ fs[Resolve(ThemeFile(<<"controll">>))] = <<CONTROLL_THEME>>
    /\ Config = <<HA, TH>>

\* C20: on a document that has the "homeassistant:" marker a branding request
\* leaves configuration.yaml as it is whatever its name, and the startup
\* branding step leaves the text as it is whatever name the section has; the
\* branding operation with any name, applied to the document a branding
\* request answered 200 has left, returns that document.
C20_EnsurePresent ==
    [][/\ (last'.op = "set_branding" /\ Contains(Config, <<HA>>))
             => fs'[ConfigFile] = fs[ConfigFile]
       /\ (last'.op = "startup" /\ Contains(Config, <<HA>>))
             => StartupBranding(Config) = Config
       /\ Served("set_branding", "200")
             => \A name \in BrandingNames \cup {<<"Controll">>} :
                   SetBrandingText(ConfigAfter, name) = ConfigAfter]_vars

\* a branding request named Acme was answered 200 on a document whose only
\* branding section is the one startup wrote with the name Controll
C20_Witness ==
    /\ last = Reply("set_branding", "200", BrandingSetText(<<"Acme">>))
    /\ Contains(Config, BrandingBlock(<<"Controll">>))
    /\ Count(Config, HA) = 1

(***************************************************************************)
(* SpecAuth: verify_token on every header, for every hub token             *)
(***************************************************************************)
TokenChars == {"a", "_"}
Tokens == SeqsUpTo(TokenChars, MaxTokenLen)

\* Authorization header values: absent, the bare token, the bearer scheme,
\* the scheme in lower case, the scheme without its space, another scheme
AuthHeaders ==
    {<<>>} \cup Tokens
           \cup {Bearer \o t : t \in Tokens}
           \cup {<<"b", "e", "a", "r", "e", "r", " ">> \o t : t \in Tokens}
           \cup {<<"B", "e", "a", "r", "e", "r">> \o t : t \in Tokens}
           \cup {<<"B", "a", "s", "i", "c", " ", " ">> \o t : t \in Tokens}

\* a handler evaluates verify_token(request)
Authorize ==
    /\ \E auth \in AuthHeaders :
          authz' = Checked(auth)
    /\ UNCHANGED <<HUB_TOKEN, started, fs, dirs, pending, last, outbound, hb, posted>>

InitAuth ==
    /\ HUB_TOKEN \in Tokens
    /\ started = TRUE
    /\ fs = [p \in Files |-> <<>>]
    /\ dirs = {}
    /\ pending = NoRequests
    /\ last = NoOutcome
    /\ outbound = 0
    /\ hb = HbStart
    /\ posted = <<>>
    /\ authz = NoAuthz

SpecAuth == InitAuth /\ [][Authorize]_vars

\* C5: verify_token returns true exactly when the Authorization header is
\* "Bearer " followed by the hub token; it is false for an absent header, for
\* a header without the "Bearer " prefix and for any other credential.
C5_VerifyToken ==
    authz.evaluated =>
        /\ authz.result <=> (authz.auth = Bearer \o HUB_TOKEN)
        /\ authz.auth = <<>> => ~authz.result
        /\ authz.auth = HUB_TOKEN => ~authz.result

\* a request with "Bearer <hub token>" was authorized, the token not empty
C5_Witness ==
    /\ authz.evaluated
    /\ authz.result
    /\ HUB_TOKEN # <<>>
    /\ authz.auth = Bearer \o HUB_TOKEN

(***************************************************************************)
(* The other endpoints                                                     *)
(***************************************************************************)
\* "Security: only allow writes within /config"
InvalidPath(path) == Contains(path, <<UP>>) \/ StartsWith(path, <<SEP>>)

\* the directories full_path.parent.mkdir(parents=True) creates
RECURSIVE Ancestors(_)
Ancestors(comps) ==
    IF Len(comps) <= 1 THEN {}
    ELSE LET up == SubSeq(comps, 1, Len(comps) - 1)
         IN {Join(up)} \cup Ancestors(up)

\* handle_file_write, lines 119-141
FileWrite(body, io) ==
    LET path == Get(body.path, <<>>)
        content == Get(body.content, <<>>)
        rejected == body.valid /\ InvalidPath(path)
        made == Ancestors(Walk(<<>>, Components(path)))
        writes == /\ body.valid
                  /\ ~InvalidPath(path)
                  /\ io = "ok"
                  /\ Resolve(path) \in Files \ dirs
                  /\ \A d \in made : d \notin Files \/ fs[d] = <<>>
    IN /\ fs' = IF writes THEN [fs EXCEPT ![Resolve(path)] = <<content>>] ELSE fs
       /\ dirs' = IF writes THEN dirs \cup made ELSE dirs
       /\ last' = Outcome("file_write",
                          IF rejected THEN "400" ELSE IF writes THEN "200" ELSE "500")
       /\ UNCHANGED outbound

\* a handler that lacks the verify_token test
handle_file_write_NoGate(auth, bodies) ==
    /\ started
    /\ \E body \in bodies, io \in {"ok", "config_write"} : FileWrite(body, io)
    /\ authz' = Checked(auth)
    /\ UNCHANGED <<HUB_TOKEN, started, pending, hb, posted>>

handle_file_write(auth, bodies) ==
    /\ started
    /\ IF ~verify_token(auth) THEN Unauthorized("file_write")
       ELSE \E body \in bodies, io \in {"ok", "config_write"} : FileWrite(body, io)
    /\ authz' = Checked(auth)
    /\ UNCHANGED <<HUB_TOKEN, started, pending, hb, posted>>

\* handle_file_read (lines 144-165) and handle_file_list (lines 168-196):
\* nothing is written, no call is made
ReadEndpoints == {"file_read", "file_list"}
handle_file_query(ep, auth) ==
    /\ started
    /\ IF ~verify_token(auth) THEN Unauthorized(ep)
       ELSE \E path \in Optional(WritePaths) :
               LET p == Get(path, <<>>)
                   invalid == IF ep = "file_read" THEN InvalidPath(p)
                              ELSE Contains(p, <<UP>>)
                   exists == \/ p = <<>>
                             \/ Resolve(p) \in dirs
                             \/ Resolve(p) \in Files /\ fs[Resolve(p)] # <<>>
               IN /\ last' = Outcome(ep, IF invalid THEN "400"
                                         ELSE IF ~exists THEN "404"
                                         ELSE IF ep = "file_read" /\ p = <<>> THEN "500"
                                         ELSE "200")
                  /\ UNCHANGED <<fs, dirs, outbound>>
    /\ authz' = Checked(auth)
    /\ UNCHANGED <<HUB_TOKEN, started, pending, hb, posted>>

\* the handlers that forward to the Supervisor / Home Assistant API
\* (lines 201-440) and the number of calls each issues
ProxyEndpoints ==
    {"ha_service", "ha_restart", "ha_config", "ha_states", "addon_list",
     "addon_install", "system_info", "discovery"}
\* handlers that read a JSON body before calling out
BodyEndpoints == {"ha_service", "addon_install"}
Calls(ep) == IF ep = "system_info" THEN 3 ELSE 1

\* n calls are issued; a call that fails, or a malformed body, ends the
\* handler with 500
handle_proxy(ep, auth) ==
    /\ started
    /\ IF ~verify_token(auth) THEN Unauthorized(ep)
       ELSE \E n \in (IF ep \in BodyEndpoints THEN 0 ELSE 1)..Calls(ep), ok \in BOOLEAN :
               /\ outbound + n <= MaxOutbound
               /\ outbound' = outbound + n
               /\ last' = Outcome(ep, IF n = Calls(ep) /\ ok THEN "200" ELSE "500")
               /\ UNCHANGED <<fs, dirs>>
    /\ authz' = Checked(auth)
    /\ UNCHANGED <<HUB_TOKEN, started, pending, hb, posted>>

\* handle_health: no verify_token
handle_health ==
    /\ started
    /\ last' = Outcome("health", "200")
    /\ UNCHANGED <<HUB_TOKEN, started, fs, dirs, pending, outbound, hb, posted, authz>>

(***************************************************************************)
(* SpecGate: every endpoint, with and without a configured hub token       *)
(***************************************************************************)
GateBrandingBodies == {b \in BrandingBodies : b.name = <<>>}
GateThemeBodies ==
    {b \in ThemeBodies : b.name = <<>> /\ b.content \in {<<>>, <<<<"v1">>>>}
                         /\ (b.valid => b.content # <<>>)}
GateFileBodies ==
    {b \in FileBodies : b.path # <<ConfigFile>> /\ (b.valid => b.content # <<>>)}

InitGate ==
    /\ HUB_TOKEN = Secret
    /\ started = FALSE
    /\ fs = [p \in Files |-> <<>>]
    /\ dirs = {}
    /\ pending = NoRequests
    /\ last = NoOutcome
    /\ outbound = 0
    /\ hb = HbStart
    /\ posted = <<>>
    /\ authz = NoAuthz

NextGate ==
    \/ main
    \/ \E auth \in RequestHeaders : handle_set_branding(auth, GateBrandingBodies)
    \/ \E auth \in RequestHeaders : handle_install_theme(auth, GateThemeBodies)
    \/ \E auth \in RequestHeaders : handle_file_write(auth, GateFileBodies)
    \/ \E auth \in RequestHeaders, ep \in ReadEndpoints : handle_file_query(ep, auth)
    \/ \E auth \in RequestHeaders, ep \in ProxyEndpoints : handle_proxy(ep, auth)
    \/ handle_health

SpecGate == InitGate /\ [][NextGate]_vars

GatedEndpoints ==
    {"set_branding", "install_theme", "file_write"} \cup ReadEndpoints \cup ProxyEndpoints

\* C6: a request to any endpoint other than /health whose Authorization
\* header is not "Bearer <hub token>" is answered 401 and changes no file, no
\* directory and issues no outbound call; /health is answered 200 whatever
\* credential came before.
C6_AuthBeforeSideEffects ==
    [][/\ (last'.op \in GatedEndpoints /\ authz'.auth # Bearer \o HUB_TOKEN)
             => /\ last'.status = "401"
                /\ UNCHANGED <<fs, dirs, outbound>>
       /\ (last'.op \in GatedEndpoints /\ authz'.auth = Bearer \o HUB_TOKEN)
             => last'.status # "401"
       /\ handle_health => Served("health", "200")]_vars

\* a request without valid credential was answered 401 after authorized
\* requests had written files and called out
C6_Witness ==
    /\ last.status = "401"
    /\ last.op = "file_write"
    /\ outbound > 0
    /\ fs[SecretsFile] # <<>>
    /\ HUB_TOKEN # <<>>

(***************************************************************************)
(* SpecConc: handlers as coroutines.  A handler runs until its only await, *)
(* `await request.json()`, where other handlers may run, and after it to   *)
(* its response without suspension.                                        *)
(***************************************************************************)
ConcEndpoints == {"set_branding", "install_theme"}

\* the handler starts: verify_token, then it suspends awaiting the body
receive(s, ep, auth) ==
    /\ started
    /\ pending[s] = Idle
    /\ IF ~verify_token(auth)
       THEN Unauthorized(ep) /\ UNCHANGED pending
       ELSE /\ pending' = [pending EXCEPT ![s] = Suspended(ep, fs)]
            /\ UNCHANGED <<fs, dirs, last, outbound>>
    /\ authz' = Checked(auth)
    /\ UNCHANGED <<HUB_TOKEN, started, hb, posted>>

\* the body has arrived: the handler runs to its response
resume(s) ==
    /\ pending[s] # Idle
    /\ \/ /\ pending[s].ep = "set_branding"
          /\ \E body \in BrandingBodies, io \in {"ok", "config_write"}, yaml_ok \in BOOLEAN :
                SetBranding(pending[s], body, io, yaml_ok)
       \/ /\ pending[s].ep = "install_theme"
          /\ \E body \in DocThemeBodies, io \in IOOutcomes :
                InstallTheme(pending[s], body, io)
    /\ pending' = [pending EXCEPT ![s] = Idle]
    /\ UNCHANGED <<HUB_TOKEN, started, hb, posted, authz>>

InitConc ==
    /\ HUB_TOKEN = Secret
    /\ started = FALSE
    /\ \E doc \in Optional({<<>>, <<"x">>}) :
          fs = [p \in Files |-> IF p = ConfigFile THEN doc ELSE <<>>]
    /\ dirs = {}
    /\ pending = NoRequests
    /\ last = NoOutcome
    /\ outbound = 0
    /\ hb = HbStart
    /\ posted = <<>>
    /\ authz = NoAuthz

NextConc ==
    \/ main
    \/ \E s \in Slots, ep \in ConcEndpoints, auth \in DocHeaders : receive(s, ep, auth)
    \/ \E s \in Slots : resume(s)

SpecConc == InitConc /\ [][NextConc]_vars

\* C7: no handler is ever suspended between its read of configuration.yaml
\* and its write (the read, the decision and the write happen in one run, in
\* which no other request runs, and a handler that fails holds nothing), so
\* with requests in flight at once no request decides on a text another
\* request has changed: the branding block and the theme-registry line are
\* never written twice.
C7_ReadModifyWriteExclusive ==
    /\ \A s \in Slots : pending[s].config_content = <<>>
    /\ Count(Config, HA) <= 1
    /\ Count(Config, INCLUDE) <= 1

\* a branding request has written its block while another branding request
\* is in flight
C7_Witness ==
    /\ \E s \in Slots : pending[s].ep = "set_branding"
    /\ Answered("set_branding", "200")
    /\ Contains(Config, BrandingBlock(<<"Acme">>))
    /\ Count(Config, HA) = 1

(***************************************************************************)
(* send_heartbeat                                                          *)
(***************************************************************************)
HEARTBEAT_INTERVAL == 300

\* s.split(sep)
RECURSIVE SplitOn(_, _)
SplitOn(s, sep) ==
    IF ~Contains(s, <<sep>>) THEN <<s>>
    ELSE LET i == CHOOSE k \in 1..Len(s) :
                      s[k] = sep /\ \A j \in 1..(k - 1) : s[j] # sep
         IN <<SubSeq(s, 1, i - 1)>> \o SplitOn(DropFirst(s, i), sep)

Unknown == <<"u", "n", "k", "n", "o", "w", "n">>

\* a device id cut at the last separator (rsplit) instead of the first
DeviceId_BeforeLast(token) ==
    IF Contains(token, <<"_">>)
    THEN LET i == CHOOSE k \in 1..Len(token) :
                      token[k] = "_" /\ \A j \in (k + 1)..Len(token) : token[j] # "_"
         IN SubSeq(token, 1, i - 1)
    ELSE Unknown

\* HUB_TOKEN.split("_")[0] if "_" in HUB_TOKEN else "unknown"
DeviceId(token) ==
    IF Contains(token, <<"_">>) THEN SplitOn(token, "_")[1] ELSE Unknown

\* a test that takes every token, the empty one too, as configured
TokenConfigured_Always(token) == TRUE

\* `if not HUB_TOKEN` is false
TokenConfigured(token) == token # <<>>

\* how a call to the local API ends when the connection fails or a response
\* arrives: an exception; a response without data.version (an empty list of
\* states); a response with a version (two states)
VersionResults == {"raised", "none", "version"}
StatesResults == {"raised", "empty", "two"}
\* how the submission ends: status 200, another status, an exception
SubmitResults == {"200", "500", "raised"}

\* lines 538-546: the top of the loop
hb_check ==
    /\ hb.pc = "top"
    /\ hb.cycle < MaxCycles
    /\ hb' = [hb EXCEPT !.pc = IF TokenConfigured(HUB_TOKEN) THEN "fetch_version"
                                ELSE "skip_sleep",
                        !.waited = 0, !.ha_version = <<>>, !.entities_count = <<>>,
                        !.version_fetch = "none", !.states_fetch = "none"]
    /\ UNCHANGED <<HUB_TOKEN, started, fs, dirs, pending, last, outbound, posted, authz>>

\* lines 540-543: no token, sleep, continue
hb_skip ==
    /\ hb.pc = "skip_sleep"
    /\ hb' = [hb EXCEPT !.pc = "top", !.cycle = @ + 1, !.waited = @ + HEARTBEAT_INTERVAL]
    /\ UNCHANGED <<HUB_TOKEN, started, fs, dirs, pending, last, outbound, posted, authz>>

\* a version fetch whose exception ends the cycle
hb_fetch_version_Abort ==
    /\ hb.pc = "fetch_version"
    /\ \E r \in VersionResults :
          hb' = [hb EXCEPT !.pc = IF r = "raised" THEN "sleep" ELSE "fetch_states",
                           !.fetches = @ + 1, !.version_fetch = r,
                           !.ha_version = IF r = "version" THEN <<"2024.1">> ELSE <<>>]
    /\ UNCHANGED <<HUB_TOKEN, started, fs, dirs, pending, last, outbound, posted, authz>>

\* lines 548-556: GET /core/info ends; any exception is passed over
hb_fetch_version ==
    /\ hb.pc = "fetch_version"
    /\ \E r \in VersionResults :
          hb' = [hb EXCEPT !.pc = "fetch_states", !.fetches = @ + 1,
                           !.version_fetch = r,
                           !.ha_version = IF r = "version" THEN <<"2024.1">> ELSE <<>>]
    /\ UNCHANGED <<HUB_TOKEN, started, fs, dirs, pending, last, outbound, posted, authz>>

\* lines 558-566: GET /states ends; any exception is passed over
hb_fetch_states ==
    /\ hb.pc = "fetch_states"
    /\ \E r \in StatesResults :
          hb' = [hb EXCEPT !.pc = "post", !.fetches = @ + 1,
                           !.states_fetch = r,
                           !.entities_count = IF r = "raised" THEN <<>>
                                              ELSE IF r = "empty" THEN <<0>> ELSE <<2>>]
    /\ UNCHANGED <<HUB_TOKEN, started, fs, dirs, pending, last, outbound, posted, authz>>

\* the payload of lines 572-577
Payload ==
    [device_id |-> DeviceId(HUB_TOKEN),
     ha_version |-> hb.ha_version,
     entities_count |-> Get(hb.entities_count, 0),
     uptime |-> 0]

\* a submission whose exception leaves the task
hb_post_Escape ==
    /\ hb.pc = "post"
    /\ posted' = Append(posted, Payload)
    /\ \E r \in SubmitResults :
          hb' = [hb EXCEPT !.pc = IF r = "raised" THEN "ended" ELSE "sleep", !.submit = r]
    /\ UNCHANGED <<HUB_TOKEN, started, fs, dirs, pending, last, outbound, authz>>

\* lines 569-584: the POST of the payload ends; the status and any exception
\* are logged, nothing else is done with them
hb_post ==
    /\ hb.pc = "post"
    /\ posted' = Append(posted, Payload)
    /\ \E r \in SubmitResults : hb' = [hb EXCEPT !.pc = "sleep", !.submit = r]
    /\ UNCHANGED <<HUB_TOKEN, started, fs, dirs, pending, last, outbound, authz>>

\* a session whose calls are never cut off
hb_timeout_Never ==
    /\ hb.pc = "ended"
    /\ UNCHANGED vars

\* line 547: the calls are made on ClientSession(), whose timeout cuts off a
\* call that gets no response; the call then raises like any failed call
hb_timeout ==
    /\ hb.pc \in {"fetch_version", "fetch_states", "post"}
    /\ hb' = [hb EXCEPT !.pc = IF hb.pc = "fetch_version" THEN "fetch_states"
                                ELSE IF hb.pc = "fetch_states" THEN "post" ELSE "sleep",
                        !.fetches = IF hb.pc = "post" THEN @ ELSE @ + 1,
                        !.version_fetch = IF hb.pc = "fetch_version" THEN "timeout" ELSE @,
                        !.states_fetch = IF hb.pc = "fetch_states" THEN "timeout" ELSE @,
                        !.submit = IF hb.pc = "post" THEN "timeout" ELSE @]
    /\ posted' = IF hb.pc = "post" THEN Append(posted, Payload) ELSE posted
    /\ UNCHANGED <<HUB_TOKEN, started, fs, dirs, pending, last, outbound, authz>>

\* line 589
hb_sleep ==
    /\ hb.pc = "sleep"
    /\ hb' = [hb EXCEPT !.pc = "top", !.cycle = @ + 1, !.waited = @ + HEARTBEAT_INTERVAL]
    /\ UNCHANGED <<HUB_TOKEN, started, fs, dirs, pending, last, outbound, posted, authz>>

InitHeartbeat ==
    /\ HUB_TOKEN \in Tokens
    /\ started = TRUE
    /\ fs = [p \in Files |-> <<>>]
    /\ dirs = {}
    /\ pending = NoRequests
    /\ last = NoOutcome
    /\ outbound = 0
    /\ hb = HbStart
    /\ posted = <<>>
    /\ authz = NoAuthz

NextHeartbeat ==
    \/ hb_check
    \/ hb_skip
    \/ hb_fetch_version
    \/ hb_fetch_states
    \/ hb_post
    \/ hb_timeout
    \/ hb_sleep

SpecHeartbeat == InitHeartbeat /\ [][NextHeartbeat]_vars

\* the part of the token before its first "_", "unknown" without "_"
BeforeFirstSeparator(token) ==
    IF \E i \in 1..Len(token) : token[i] = "_"
    THEN LET i == CHOOSE k \in 1..Len(token) :
                      token[k] = "_" /\ \A j \in 1..(k - 1) : token[j] # "_"
         IN SubSeq(token, 1, i - 1)
    ELSE Unknown

\* C9: the device_id of every heartbeat payload is the part of the hub token
\* before its first "_", and "unknown" when the token has no "_".
C9_DeviceId ==
    \A k \in 1..Len(posted) : posted[k].device_id = BeforeFirstSeparator(HUB_TOKEN)

\* a payload was posted for a token with two separators
C9_Witness ==
    /\ HUB_TOKEN = <<"a", "_", "_">>
    /\ Len(posted) > 0
    /\ posted[1].device_id = <<"a">>

\* C10: with an empty hub token no fetch from the local API is made and no
\* payload is posted, and every cycle consists of one sleep of
\* HEARTBEAT_INTERVAL seconds.
C10_SkipWithoutToken ==
    HUB_TOKEN = <<>> =>
        /\ hb.fetches = 0
        /\ posted = <<>>
        /\ hb.pc \in {"top", "skip_sleep"}
        /\ hb.pc = "skip_sleep" => hb.waited = 0
        /\ (hb.pc = "top" /\ hb.cycle > 0) => hb.waited = HEARTBEAT_INTERVAL

\* two cycles were skipped
C10_Witness ==
    /\ HUB_TOKEN = <<>>
    /\ hb.cycle = 2
    /\ hb.pc = "top"
    /\ hb.waited = HEARTBEAT_INTERVAL

\* C11: the two fetches are best-effort and independent: however they end,
\* the cycle submits one payload, whose ha_version is null exactly when the
\* version fetch gave no version (it raised, was cut off, or answered without
\* one) and whose entities_count is 0 exactly when the states fetch gave no
\* entity (it raised, was cut off, or answered an empty list); a fetch that
\* succeeded is reported whatever became of the other.
C11_BestEffortFetches ==
    /\ hb.pc = "post" => Len(posted) = hb.cycle
    /\ hb.pc = "sleep" =>
          /\ Len(posted) = hb.cycle + 1
          /\ LET payload == posted[Len(posted)]
             IN /\ payload.ha_version = <<>> <=> hb.version_fetch # "version"
                /\ payload.entities_count = 0 <=> hb.states_fetch # "two"
                /\ hb.version_fetch = "version" => payload.ha_version = <<"2024.1">>
                /\ hb.states_fetch = "two" => payload.entities_count = 2

\* the version fetch raised, the states fetch counted two entities, and the
\* payload went out with the count and without the version
C11_Witness ==
    /\ hb.pc = "sleep"
    /\ hb.version_fetch = "raised"
    /\ hb.states_fetch = "two"
    /\ posted[Len(posted)].ha_version = <<>>
    /\ posted[Len(posted)].entities_count = 2

\* C12: however a submission ends (status 200, another status, an exception,
\* a timeout), the task goes on to its sleep; a cycle submits at most once;
\* and every cycle, skipped or not, ends with one sleep of HEARTBEAT_INTERVAL
\* seconds after which the next cycle begins, whatever failed before.
C12_SubmitFailureSwallowed ==
    [][/\ hb.pc = "post" => (hb'.pc = "sleep" /\ Len(posted') = Len(posted) + 1)
       /\ hb.pc # "post" => posted' = posted
       /\ hb.pc \in {"sleep", "skip_sleep"} =>
             /\ hb'.pc = "top"
             /\ hb'.cycle = hb.cycle + 1
             /\ hb'.waited = HEARTBEAT_INTERVAL
       /\ hb'.pc \in {"top", "skip_sleep", "fetch_version", "fetch_states", "post", "sleep"}
       /\ Len(posted') <= hb'.cycle + 1]_vars

\* the submission of the second cycle raised, and the task is back at the top
\* of its loop after one interval
C12_Witness ==
    /\ hb.pc = "top"
    /\ hb.cycle = 2
    /\ hb.submit = "raised"
    /\ Len(posted) = 2
    /\ hb.waited = HEARTBEAT_INTERVAL

(***************************************************************************)
(* SpecHeartbeatLive: the task's own steps are taken when they can be (the *)
(* event loop runs a task that is ready; a sleep ends; the session's       *)
(* timeout fires).  Nothing is assumed about the endpoints answering.      *)
(***************************************************************************)
SpecHeartbeatLive ==
    /\ InitHeartbeat
    /\ [][NextHeartbeat]_vars
    /\ WF_vars(hb_check)
    /\ WF_vars(hb_skip)
    /\ WF_vars(hb_timeout)
    /\ WF_vars(hb_sleep)

\* C13: a cycle that has begun ends, and the task comes back to the top of
\* its loop, even if no endpoint ever answers.
C13_CycleEnds == (hb.pc # "top") ~> (hb.pc = "top")

\* a cycle in which all three calls were cut off has ended
C13_Witness ==
    /\ hb.pc = "top"
    /\ hb.cycle = 1
    /\ hb.version_fetch = "timeout"
    /\ hb.states_fetch = "timeout"
    /\ hb.submit = "timeout"

(***************************************************************************)
(* Further properties of the reconciler (Spec) and of verify_token         *)
(* (SpecAuth)                                                              *)
(***************************************************************************)
\* C21 (as claimed): no step of the reconciler removes the "homeassistant:"
\* marker or the "themes:" marker from configuration.yaml, and a document
\* that has both markers is changed by no step.
C21_MarkersMonotone ==
    [][last'.op \in {"startup", "set_branding", "install_theme"} =>
          /\ Contains(Config, <<HA>>) => Contains(ConfigAfter, <<HA>>)
          /\ Contains(Config, <<TH>>) => Contains(ConfigAfter, <<TH>>)
          /\ (Contains(Config, <<HA>>) /\ Contains(Config, <<TH>>))
                => fs'[ConfigFile] = fs[ConfigFile]]_vars

\* C22 (as claimed): with an empty hub token verify_token is false for every
\* Authorization header.
C22_NoTokenNoAccess ==
    (HUB_TOKEN = <<>> /\ authz.evaluated) => ~authz.result

(***************************************************************************)
(* SpecTheme: theme installs with every theme name                         *)
(***************************************************************************)
InitTheme ==
    /\ HUB_TOKEN = Secret
    /\ started = FALSE
    /\ fs = [p \in Files |-> <<>>]
    /\ dirs = {}
    /\ pending = NoRequests
    /\ last = NoOutcome
    /\ outbound = 0
    /\ hb = HbStart
    /\ posted = <<>>
    /\ authz = NoAuthz

NextTheme ==
    \/ main
    \/ \E auth \in DocHeaders : handle_install_theme(auth, ThemeBodies)

SpecTheme == InitTheme /\ [][NextTheme]_vars

\* p names a file directly in the themes directory
InThemesDir(p) == Len(Components(p)) = 2 /\ Components(p)[1] = ThemesDir

\* C23 (as claimed): a theme install creates or changes no file other than
\* configuration.yaml and files directly in the themes directory.
C23_WritesOnlyThemesAndConfig ==
    [][last'.op = "install_theme" =>
          \A p \in Files : fs'[p] # fs[p] => (p = ConfigFile \/ InThemesDir(p))]_vars

====
